---- MODULE Spec2Model ----
(***************************************************************************)
(* Recursive-descent parser and evaluator of src/main.rs: tokenize,        *)
(* parse_expr / parse_term / parse_number, parse, evaluate and main.       *)
(***************************************************************************)
EXTENDS Integers, Sequences, FiniteSets, TLC

VARIABLES input, pc, tokens, outcome, result, overflow_checks

vars == <<input, pc, tokens, outcome, result, overflow_checks>>

(* ------------------------------ bounds --------------------------------- *)

\* longest input of the lexer specification, in characters
MaxLexLen == 4
\* longest input of the parser specification, in characters
MaxLen == 5
\* longest digit string of the number specification
MaxDigits == 10
\* most Add/Sub nodes of a tree of the evaluator specification
MaxOps == 2

(* ------------------------------ integers ------------------------------- *)

I32_MAX == 2147483647
I32_MIN == -I32_MAX - 1
Limb == 2^16
HalfLimb == 2^15

\* a u32 is kept as two 16-bit limbs <<hi, lo>>, value hi * 2^16 + lo
U32(d) == <<0, d>>

\* the fold with the factor on the wrong operand: total + digit * 10
MulAdd10_swapped(total, digit) ==
    LET lo == total[2] + digit * 10
        hi == total[1] + (lo \div Limb)
    IN  [overflow |-> hi >= Limb, val |-> <<hi % Limb, lo % Limb>>]

\* total * 10 + digit on u32 (main.rs:99): the exact limbs and whether the
\* u32 range was left
MulAdd10(total, digit) ==
    LET lo == total[2] * 10 + digit
        hi == total[1] * 10 + (lo \div Limb)
    IN  [overflow |-> hi >= Limb, val |-> <<hi % Limb, lo % Limb>>]

\* number as i32 (main.rs:103): the two's complement reading of the u32
AsI32(u) ==
    IF u[1] < HalfLimb THEN u[1] * Limb + u[2]
    ELSE (u[1] - Limb) * Limb + u[2]

(* ------------------------------ tokens --------------------------------- *)

LParen == [t |-> "LParen"]
RParen == [t |-> "RParen"]
Plus == [t |-> "Plus"]
Minus == [t |-> "Minus"]
Digit(d) == [t |-> "Digit", d |-> d]

IsDigit(tok) == tok.t = "Digit"

(* ------------------------------ errors --------------------------------- *)

Expected(what, tok) == [e |-> "Expected", expected |-> what, found |-> tok]
UnexpectedEndOfInput == [e |-> "UnexpectedEndOfInput"]
InvalidToken(c) == [e |-> "InvalidToken", c |-> c]

Ok2(expr, rest) == [kind |-> "Ok", expr |-> expr, rest |-> rest]
Err(e) == [kind |-> "Err", err |-> e]
Panic == [kind |-> "Panic"]

(* ------------------------------ trees ---------------------------------- *)

Number(n) == [x |-> "Number", n |-> n]
Add(l, r) == [x |-> "Add", lhs |-> l, rhs |-> r]
Sub(l, r) == [x |-> "Sub", lhs |-> l, rhs |-> r]

Tail1(s) == SubSeq(s, 2, Len(s))
DropN(s, n) == SubSeq(s, n + 1, Len(s))

(* ------------------------------ tokenize ------------------------------- *)

DigitChars == <<"0", "1", "2", "3", "4", "5", "6", "7", "8", "9">>

\* is_whitespace that knows the tab and the newline only
is_whitespace_no_space(c) == c \in {"\t", "\n"}

is_whitespace(c) == c \in {" ", "\t", "\n"}

\* char::to_digit(10): the digit's value, or -1 for None
to_digit(c) ==
    IF \E i \in 1..10 : DigitChars[i] = c
    THEN (CHOOSE i \in 1..10 : DigitChars[i] = c) - 1
    ELSE -1

\* the closure of map (main.rs:122-130)
token_of(c) ==
    CASE c = "(" -> [kind |-> "Ok", tok |-> LParen]
      [] c = ")" -> [kind |-> "Ok", tok |-> RParen]
      [] c = "+" -> [kind |-> "Ok", tok |-> Plus]
      [] c = "-" -> [kind |-> "Ok", tok |-> Minus]
      [] OTHER   -> IF to_digit(c) >= 0
                    THEN [kind |-> "Ok", tok |-> Digit(to_digit(c))]
                    ELSE Err(InvalidToken(c))

RECURSIVE collect(_, _)

\* collect that maps every character and keeps the last error
collect_last_error(chars, acc) ==
    IF chars = <<>> THEN [kind |-> "Ok", toks |-> acc]
    ELSE IF is_whitespace(Head(chars)) THEN collect(Tail(chars), acc)
    ELSE LET r == token_of(Head(chars))
             later == collect(Tail(chars), IF r.kind = "Err" THEN acc ELSE Append(acc, r.tok))
         IN  IF later.kind = "Err" THEN later
             ELSE IF r.kind = "Err" THEN r
             ELSE later

\* filter + map + collect::<Result<Vec<_>, _>>: stops at the first Err
collect(chars, acc) ==
    IF chars = <<>> THEN [kind |-> "Ok", toks |-> acc]
    ELSE IF is_whitespace(Head(chars)) THEN collect(Tail(chars), acc)
    ELSE LET r == token_of(Head(chars))
         IN  IF r.kind = "Err" THEN r
             ELSE collect(Tail(chars), Append(acc, r.tok))

tokenize(s) == collect(s, <<>>)

(* ------------------------------ parser --------------------------------- *)

RECURSIVE take_while_digits(_)
take_while_digits(toks) ==
    IF toks = <<>> \/ ~IsDigit(Head(toks)) THEN <<>>
    ELSE <<Head(toks).d>> \o take_while_digits(Tail(toks))

RECURSIVE reduce(_, _, _, _)
\* reduce over the digits after the first: each step bumps num_digits and
\* folds total * 10 + digit; with overflow checks the step panics
reduce(digits, total, num_digits, checks) ==
    IF digits = <<>> THEN [kind |-> "Ok", total |-> total, num_digits |-> num_digits]
    ELSE LET step == MulAdd10(total, Head(digits))
         IN  IF step.overflow /\ checks THEN Panic
             ELSE reduce(Tail(digits), step.val, num_digits + 1, checks)

\* parse_number with num_digits never bumped: one token is skipped
parse_number_one_digit(toks, checks) ==
    IF toks = <<>> THEN Err(UnexpectedEndOfInput)
    ELSE IF IsDigit(Head(toks))
    THEN LET digits == take_while_digits(toks)
             r == reduce(Tail(digits), U32(Head(digits)), 1, checks)
         IN  IF r.kind = "Panic" THEN Panic
             ELSE Ok2(Number(AsI32(r.total)), DropN(toks, 1))
    ELSE Err(Expected("digit", Head(toks)))

parse_number(toks, checks) ==
    IF toks = <<>> THEN Err(UnexpectedEndOfInput)
    ELSE IF IsDigit(Head(toks))
    THEN LET digits == take_while_digits(toks)
             r == reduce(Tail(digits), U32(Head(digits)), 1, checks)
         IN  IF r.kind = "Panic" THEN Panic
             ELSE Ok2(Number(AsI32(r.total)), DropN(toks, r.num_digits))
    ELSE Err(Expected("digit", Head(toks)))

RECURSIVE parse_expr(_, _), parse_term(_, _)

\* parse_term that takes the end of the input for the closing parenthesis
parse_term_open_end(toks, checks) ==
    IF toks = <<>> THEN Err(UnexpectedEndOfInput)
    ELSE IF Head(toks) = LParen
    THEN LET r == parse_expr(Tail1(toks), checks)
         IN  IF r.kind # "Ok" THEN r
             ELSE IF r.rest = <<>> THEN Ok2(r.expr, <<>>)
             ELSE IF Head(r.rest) = RParen THEN Ok2(r.expr, Tail1(r.rest))
             ELSE Err(Expected("right parenthesis", Head(r.rest)))
    ELSE parse_number(toks, checks)

\* parse_term that reports the slice's first token as the one found
parse_term_found_first(toks, checks) ==
    IF toks = <<>> THEN Err(UnexpectedEndOfInput)
    ELSE IF Head(toks) = LParen
    THEN LET r == parse_expr(Tail1(toks), checks)
         IN  IF r.kind # "Ok" THEN r
             ELSE IF r.rest = <<>> THEN Err(UnexpectedEndOfInput)
             ELSE IF Head(r.rest) = RParen THEN Ok2(r.expr, Tail1(r.rest))
             ELSE Err(Expected("right parenthesis", Head(toks)))
    ELSE parse_number(toks, checks)

parse_term(toks, checks) ==
    IF toks = <<>> THEN Err(UnexpectedEndOfInput)
    ELSE IF Head(toks) = LParen
    THEN LET r == parse_expr(Tail1(toks), checks)
         IN  IF r.kind # "Ok" THEN r
             ELSE IF r.rest = <<>> THEN Err(UnexpectedEndOfInput)
             ELSE IF Head(r.rest) = RParen THEN Ok2(r.expr, Tail1(r.rest))
             ELSE Err(Expected("right parenthesis", Head(r.rest)))
    ELSE parse_number(toks, checks)

\* parse_expr whose subtraction takes a term, as its addition does
parse_expr_sub_term(toks, checks) ==
    LET t == parse_term(toks, checks)
    IN  IF t.kind # "Ok" THEN t
        ELSE IF t.rest # <<>> /\ Head(t.rest) = Plus
        THEN LET o == parse_term(Tail1(t.rest), checks)
             IN  IF o.kind # "Ok" THEN o
                 ELSE Ok2(Add(t.expr, o.expr), o.rest)
        ELSE IF t.rest # <<>> /\ Head(t.rest) = Minus
        THEN LET o == parse_term(Tail1(t.rest), checks)
             IN  IF o.kind # "Ok" THEN o
                 ELSE Ok2(Sub(t.expr, o.expr), o.rest)
        ELSE t

parse_expr(toks, checks) ==
    LET t == parse_term(toks, checks)
    IN  IF t.kind # "Ok" THEN t
        ELSE IF t.rest # <<>> /\ Head(t.rest) = Plus
        THEN LET o == parse_term(Tail1(t.rest), checks)
             IN  IF o.kind # "Ok" THEN o
                 ELSE Ok2(Add(t.expr, o.expr), o.rest)
        ELSE IF t.rest # <<>> /\ Head(t.rest) = Minus
        THEN LET o == parse_expr(Tail1(t.rest), checks)
             IN  IF o.kind # "Ok" THEN o
                 ELSE Ok2(Sub(t.expr, o.expr), o.rest)
        ELSE t

\* parse without the check of the remainder
parse_tokens_no_end_check(toks, checks) ==
    LET r == parse_expr(toks, checks)
    IN  IF r.kind # "Ok" THEN r
        ELSE [kind |-> "Ok", expr |-> r.expr]

\* the part of parse after tokenize (main.rs:136-144)
parse_tokens(toks, checks) ==
    LET r == parse_expr(toks, checks)
    IN  IF r.kind # "Ok" THEN r
        ELSE IF r.rest # <<>> THEN Err(Expected("end of input", Head(r.rest)))
        ELSE [kind |-> "Ok", expr |-> r.expr]

parse(s, checks) ==
    LET tk == tokenize(s)
    IN  IF tk.kind # "Ok" THEN tk ELSE parse_tokens(tk.toks, checks)

(* ------------------------------ evaluate ------------------------------- *)

\* lhs + rhs on i32 (main.rs:154)
AddI32(a, b, checks) ==
    IF b > 0 /\ a > I32_MAX - b
    THEN IF checks THEN Panic
         ELSE [kind |-> "Ok", v |-> (a - I32_MAX - 1) + (b - I32_MAX - 1)]
    ELSE IF b < 0 /\ a < I32_MIN - b
    THEN IF checks THEN Panic
         ELSE [kind |-> "Ok", v |-> (a + I32_MAX + 1) + (b + I32_MAX + 1)]
    ELSE [kind |-> "Ok", v |-> a + b]

\* lhs - rhs on i32 (main.rs:163)
SubI32(a, b, checks) ==
    IF b < 0 /\ a > I32_MAX + b
    THEN IF checks THEN Panic
         ELSE [kind |-> "Ok", v |-> (a - I32_MAX - 1) - (b + I32_MAX + 1)]
    ELSE IF b > 0 /\ a < I32_MIN + b
    THEN IF checks THEN Panic
         ELSE [kind |-> "Ok", v |-> (a + I32_MAX + 1) - (b - I32_MAX - 1)]
    ELSE [kind |-> "Ok", v |-> a - b]

RECURSIVE evaluate(_, _)

\* evaluate whose Sub takes rhs - lhs
evaluate_sub_swapped(expr, checks) ==
    IF expr.x = "Number" THEN [kind |-> "Ok", v |-> expr.n]
    ELSE LET lhs == evaluate(expr.lhs, checks)
         IN  IF lhs.kind # "Ok" THEN lhs
             ELSE LET rhs == evaluate(expr.rhs, checks)
                  IN  IF rhs.kind # "Ok" THEN rhs
                      ELSE IF expr.x = "Add" THEN AddI32(lhs.v, rhs.v, checks)
                      ELSE SubI32(rhs.v, lhs.v, checks)

evaluate(expr, checks) ==
    IF expr.x = "Number" THEN [kind |-> "Ok", v |-> expr.n]
    ELSE LET lhs == evaluate(expr.lhs, checks)
         IN  IF lhs.kind # "Ok" THEN lhs
             ELSE LET rhs == evaluate(expr.rhs, checks)
                  IN  IF rhs.kind # "Ok" THEN rhs
                      ELSE IF expr.x = "Add" THEN AddI32(lhs.v, rhs.v, checks)
                      ELSE SubI32(lhs.v, rhs.v, checks)

(* ------------------------------ inputs --------------------------------- *)

RECURSIVE StringsOver(_, _)
\* every sequence over alphabet of length at most n
StringsOver(alphabet, n) ==
    IF n = 0 THEN {<<>>}
    ELSE LET shorter == StringsOver(alphabet, n - 1)
         IN  shorter \cup {Append(s, c) : s \in shorter, c \in alphabet}

LexChars == {"(", ")", "+", "-", "1", " ", "a", "b"}
ParseChars == {"(", ")", "+", "-", "1", "2", "3"}
NumChars == {"0", "4"}
EvalLeaves == {I32_MIN, -1, 0, 1, I32_MAX}

RECURSIVE TreesWith(_)
\* every tree with exactly k Add/Sub nodes over EvalLeaves
TreesWith(k) ==
    IF k = 0 THEN {Number(v) : v \in EvalLeaves}
    ELSE UNION {
           UNION { {Add(l, r), Sub(l, r)} : l \in TreesWith(i), r \in TreesWith(k - 1 - i) }
           : i \in 0..(k - 1) }

Trees == UNION {TreesWith(k) : k \in 0..MaxOps}

NoOutcome == [kind |-> "None"]

(* ------------------------------ the program ---------------------------- *)

InitWith(inputs) ==
    /\ input \in inputs
    /\ pc = "parse"
    /\ tokens = <<>>
    /\ outcome = NoOutcome
    /\ result = NoOutcome
    /\ overflow_checks \in BOOLEAN

\* main.rs:135: tokenize(input)?
Tokenize ==
    /\ pc = "parse"
    /\ LET tk == tokenize(input)
       IN  IF tk.kind = "Ok"
           THEN /\ tokens' = tk.toks
                /\ outcome' = outcome
                /\ pc' = "tokenized"
           ELSE /\ tokens' = tokens
                /\ outcome' = tk
                /\ pc' = "done"
    /\ UNCHANGED <<input, result, overflow_checks>>

\* main.rs:136-144: parse_expr(&tokens)? and the check of the remainder
ParseTokens ==
    /\ pc = "tokenized"
    /\ outcome' = parse_tokens(tokens, overflow_checks)
    /\ pc' = IF outcome'.kind = "Ok" THEN "parsed" ELSE "done"
    /\ UNCHANGED <<input, tokens, result, overflow_checks>>

\* main.rs:177-181: evaluate(tree)
Evaluate ==
    /\ pc = "parsed"
    /\ result' = evaluate(outcome.expr, overflow_checks)
    /\ pc' = "done"
    /\ UNCHANGED <<input, tokens, outcome, overflow_checks>>

Next == Tokenize \/ ParseTokens \/ Evaluate

Init == InitWith(StringsOver(ParseChars, MaxLen))
Spec == Init /\ [][Next]_vars

InitLex == InitWith(StringsOver(LexChars, MaxLexLen))
SpecLex == InitLex /\ [][Next]_vars

\* the digit strings at the edges of i32 and of u32
BoundaryInputs ==
    { <<"2", "1", "4", "7", "4", "8", "3", "6", "4", "7">>,
      <<"0", "2", "1", "4", "7", "4", "8", "3", "6", "4", "7">>,
      <<"2", "1", "4", "7", "4", "8", "3", "6", "4", "8">>,
      <<"4", "2", "9", "4", "9", "6", "7", "2", "9", "5">>,
      <<"4", "2", "9", "4", "9", "6", "7", "2", "9", "6">> }

InitNum == InitWith((StringsOver(NumChars, MaxDigits) \ {<<>>}) \cup BoundaryInputs)
SpecNum == InitNum /\ [][Next]_vars

InitEval ==
    /\ input = <<>>
    /\ pc = "parsed"
    /\ tokens = <<>>
    /\ outcome \in {[kind |-> "Ok", expr |-> t] : t \in Trees}
    /\ result = NoOutcome
    /\ overflow_checks \in BOOLEAN

NextEval == Evaluate
SpecEval == InitEval /\ [][NextEval]_vars

(* ------------------------------ the grammar ---------------------------- *)

\* number = digit, { digit }
InNumber(s) == s # <<>> /\ \A i \in 1..Len(s) : IsDigit(s[i])

RECURSIVE InExpr(_), InTerm(_)

\* term = "(", expr, ")" | number
InTerm(s) ==
    \/ InNumber(s)
    \/ /\ Len(s) >= 3
       /\ s[1] = LParen
       /\ s[Len(s)] = RParen
       /\ InExpr(SubSeq(s, 2, Len(s) - 1))

\* expr = term { ("+" | "-"), term }
InExpr(s) ==
    \/ InTerm(s)
    \/ \E i \in 2..(Len(s) - 1) :
          /\ s[i] \in {Plus, Minus}
          /\ InTerm(SubSeq(s, i + 1, Len(s)))
          /\ InExpr(SubSeq(s, 1, i - 1))

(* ------------------------------ claims --------------------------------- *)

\* the input was tokenized and parse has returned
ParseReturned == pc \in {"parsed", "done"} /\ tokenize(input).kind = "Ok"

\* s is exactly one term: parse_term consumes all of it
IsTerm(s) ==
    LET r == parse_term(s, overflow_checks)
    IN  r.kind = "Ok" /\ r.rest = <<>>

TermTree(s) == parse_term(s, overflow_checks).expr

\* C1, general form: on tokens t1 - rest, with t1 a term and rest not empty,
\* parse_expr gives Sub(t1, E) and E's remainder when parse_expr on rest
\* gives E, and fails as parse_expr on rest fails otherwise
SubIsRightAssociative(ts) ==
    \A k \in 2..(Len(ts) - 1) :
        (ts[k] = Minus /\ IsTerm(SubSeq(ts, 1, k - 1))) =>
            LET E == parse_expr(DropN(ts, k), overflow_checks)
                r == parse_expr(ts, overflow_checks)
            IN  IF E.kind = "Ok"
                THEN r = Ok2(Sub(TermTree(SubSeq(ts, 1, k - 1)), E.expr), E.rest)
                ELSE r = E

\* C1, chains: t1 - t2 + t3 parses to Sub(t1, Add(t2, t3))
SubOfAddChain(ts) ==
    \A k \in 2..(Len(ts) - 1) : \A j \in (k + 2)..(Len(ts) - 1) :
        ( /\ ts[k] = Minus /\ ts[j] = Plus
          /\ IsTerm(SubSeq(ts, 1, k - 1))
          /\ IsTerm(SubSeq(ts, k + 1, j - 1))
          /\ IsTerm(DropN(ts, j)) ) =>
            parse_tokens(ts, overflow_checks) =
                [kind |-> "Ok",
                 expr |-> Sub(TermTree(SubSeq(ts, 1, k - 1)),
                              Add(TermTree(SubSeq(ts, k + 1, j - 1)),
                                  TermTree(DropN(ts, j))))]

C3_TrailingTokensRejected ==
    ParseReturned =>
        LET r == parse_expr(tokens, overflow_checks)
        IN  /\ outcome.kind = "Ok" =>
                r.kind = "Ok" /\ r.rest = <<>> /\ outcome.expr = r.expr
            /\ (r.kind = "Ok" /\ r.rest # <<>>) =>
                /\ pc = "done"
                /\ outcome = Err(Expected("end of input", Head(r.rest)))
                /\ result = NoOutcome

C3_Witness ==
    /\ pc = "done"
    /\ input = <<"1", "+", "2", ")">>
    /\ outcome = Err(Expected("end of input", RParen))

\* C9: parse returns Ok exactly on the token sequences derivable from expr
\* in the grammar of the source
C9_AcceptsTheGrammar ==
    ParseReturned => (outcome.kind = "Ok" <=> InExpr(tokens))

\* the length of the maximal leading run of digit tokens
DigitRun(s) ==
    CHOOSE n \in 0..Len(s) :
        /\ \A i \in 1..n : IsDigit(s[i])
        /\ n < Len(s) => ~IsDigit(s[n + 1])

IsStrictSuffix(rest, s) == \E k \in 1..Len(s) : rest = DropN(s, k)

\* C10: a rule that succeeds returns a strict suffix of its slice, and
\* parse_number consumes exactly the maximal leading run of digits
RulesReturnSuffix(s) ==
    LET e == parse_expr(s, overflow_checks)
        t == parse_term(s, overflow_checks)
        n == parse_number(s, overflow_checks)
    IN  /\ e.kind = "Ok" => IsStrictSuffix(e.rest, s)
        /\ t.kind = "Ok" => IsStrictSuffix(t.rest, s)
        /\ n.kind = "Ok" =>
              /\ IsStrictSuffix(n.rest, s)
              /\ n.rest = DropN(s, DigitRun(s))
              /\ n.rest = <<>> \/ ~IsDigit(Head(n.rest))

C10_RulesConsumePrefix ==
    pc = "tokenized" =>
        \A i \in 1..(Len(tokens) + 1) : RulesReturnSuffix(DropN(tokens, i - 1))

C10_Witness ==
    /\ pc = "tokenized"
    /\ Len(tokens) = 4
    /\ IsDigit(tokens[1]) /\ IsDigit(tokens[2]) /\ tokens[3] = Plus
    /\ parse_number(tokens, overflow_checks) =
          Ok2(Number(tokens[1].d * 10 + tokens[2].d), DropN(tokens, 2))
    /\ parse_expr(tokens, overflow_checks).kind = "Ok"
    /\ parse_expr(tokens, overflow_checks).rest = <<>>

(* ------------------------------ parentheses ---------------------------- *)

\* left parentheses minus right parentheses among the first i tokens
Depth(s, i) ==
    Cardinality({j \in 1..i : s[j] = LParen}) - Cardinality({j \in 1..i : s[j] = RParen})

\* exactly one left parenthesis has no matching right parenthesis
OneUnmatchedLeft(s) ==
    /\ \A i \in 1..Len(s) : Depth(s, i) >= 0
    /\ Depth(s, Len(s)) = 1

\* token i is the first right parenthesis with no matching left parenthesis
UnmatchedRightAt(s, i) ==
    /\ s[i] = RParen
    /\ Depth(s, i) < 0
    /\ \A j \in 1..(i - 1) : Depth(s, j) >= 0

\* the position of the remainder r.rest within s
RestPos(s, r) == Len(s) - Len(r.rest) + 1

\* parse_term, called at position q of s, succeeds and leaves off at e
TermEndsAt(s, q, e) ==
    LET r == parse_term(DropN(s, q - 1), overflow_checks)
    IN  r.kind = "Ok" /\ RestPos(s, r) = e

RECURSIVE ExprStartsAt(_, _), TermStartsAt(_, _)

\* parse(s) calls parse_expr at position p: at the start (main.rs:136),
\* after a left parenthesis (main.rs:66) or after a term and a minus
\* (main.rs:50)
ExprStartsAt(s, p) ==
    \/ p = 1
    \/ /\ p > 1
       /\ \/ s[p - 1] = LParen /\ TermStartsAt(s, p - 1)
          \/ /\ s[p - 1] = Minus
             /\ \E q \in 1..(p - 2) : ExprStartsAt(s, q) /\ TermEndsAt(s, q, p - 1)

\* parse(s) calls parse_term at position p: where parse_expr starts
\* (main.rs:39) or after its first term and a plus (main.rs:44)
TermStartsAt(s, p) ==
    \/ ExprStartsAt(s, p)
    \/ /\ p > 1
       /\ s[p - 1] = Plus
       /\ \E q \in 1..(p - 2) : ExprStartsAt(s, q) /\ TermEndsAt(s, q, p - 1)

\* token i stands where a parenthesized expr must be closed: parse_term
\* took a left parenthesis and parse_expr succeeded up to i (main.rs:66-68)
ClosePosition(s, i) ==
    \E j \in 1..(i - 1) :
        /\ s[j] = LParen
        /\ TermStartsAt(s, j)
        /\ LET r == parse_expr(DropN(s, j), overflow_checks)
           IN  r.kind = "Ok" /\ r.rest # <<>> /\ RestPos(s, r) = i

\* C4 as stated: an input with one unmatched left parenthesis, otherwise
\* balanced, fails with UnexpectedEndOfInput
C4_UnmatchedLeftIsEndOfInput ==
    (ParseReturned /\ OneUnmatchedLeft(tokens)) => outcome = Err(UnexpectedEndOfInput)

\* C4 amended: an input that parse accepts once one right parenthesis is
\* appended to it fails with UnexpectedEndOfInput
C4_MissingCloseIsEndOfInput ==
    (ParseReturned /\ parse_tokens(Append(tokens, RParen), overflow_checks).kind = "Ok") =>
        /\ pc = "done"
        /\ outcome = Err(UnexpectedEndOfInput)

C4_Witness ==
    /\ pc = "done"
    /\ input = <<"(", "1", "+", "2">>
    /\ parse_tokens(Append(tokens, RParen), overflow_checks).kind = "Ok"
    /\ outcome = Err(UnexpectedEndOfInput)

\* a token other than a right parenthesis where a parenthesized expr must
\* be closed is reported as Expected{"right parenthesis", found: it}
MismatchedCloseReported ==
    \A i \in 1..Len(tokens) :
        (ClosePosition(tokens, i) /\ tokens[i] # RParen) =>
            outcome = Err(Expected("right parenthesis", tokens[i]))

\* C5 as stated: an unmatched right parenthesis, and a token other than a
\* right parenthesis where a parenthesized expr must be closed, both fail
\* with Expected{"right parenthesis", found: that token}
C5_UnmatchedRightIsExpectedRParen ==
    ParseReturned =>
        /\ \A i \in 1..Len(tokens) :
              UnmatchedRightAt(tokens, i) =>
                  outcome = Err(Expected("right parenthesis", tokens[i]))
        /\ MismatchedCloseReported

\* C5 amended: a token other than a right parenthesis where a parenthesized
\* expr must be closed fails with Expected{"right parenthesis", found: it}
C5_MismatchedCloseIsExpectedRParen ==
    ParseReturned => MismatchedCloseReported

C5_Witness ==
    /\ pc = "done"
    /\ input = <<"1", "-", "(", "2", "(">>
    /\ ClosePosition(tokens, 5)
    /\ outcome = Err(Expected("right parenthesis", LParen))

(* ------------------------------ the alphabet --------------------------- *)

WhiteSpace == {" ", "\t", "\n"}
Alphabet == {"(", ")", "+", "-", "0", "1", "2", "3", "4", "5", "6", "7", "8", "9"}

IsForeign(c) == c \notin WhiteSpace /\ c \notin Alphabet

\* s without its whitespace
Strip(s) == SelectSeq(s, LAMBDA c : c \notin WhiteSpace)

\* the token the language gives a character of the alphabet
TokenFor(c) ==
    CASE c = "(" -> LParen
      [] c = ")" -> RParen
      [] c = "+" -> Plus
      [] c = "-" -> Minus
      [] OTHER   -> Digit(CHOOSE d \in 0..9 : DigitChars[d + 1] = c)

\* C6: an input with a non-whitespace character outside the alphabet fails
\* with InvalidToken of the leftmost such character, at tokenization: no
\* token is kept and no grammar rule runs
C6_InvalidTokenFirst ==
    (pc # "parse" /\ \E i \in 1..Len(input) : IsForeign(input[i])) =>
        LET first == CHOOSE i \in 1..Len(input) :
                        IsForeign(input[i]) /\ \A j \in 1..(i - 1) : ~IsForeign(input[j])
        IN  /\ pc = "done"
            /\ outcome = Err(InvalidToken(input[first]))
            /\ tokens = <<>>
            /\ result = NoOutcome

C6_Witness ==
    /\ pc = "done"
    /\ input = <<"(", "1", "b", "a">>
    /\ outcome = Err(InvalidToken("b"))

\* C7: tokenize gives one token per non-whitespace character, in order, so
\* an input and the input without its whitespace give the same tokens, the
\* same tree or the same error, and the same value
C7_WhitespaceInsensitive ==
    /\ pc = "tokenized" =>
          /\ Len(tokens) = Len(Strip(input))
          /\ \A i \in 1..Len(tokens) : tokens[i] = TokenFor(Strip(input)[i])
    /\ pc # "parse" =>
          /\ tokenize(input) = tokenize(Strip(input))
          /\ tokenize(input).kind = "Ok" => tokens = tokenize(Strip(input)).toks
    /\ (pc \in {"parsed", "done"}) => outcome = parse(Strip(input), overflow_checks)
    /\ (pc = "done" /\ outcome.kind = "Ok") =>
          result = evaluate(parse(Strip(input), overflow_checks).expr, overflow_checks)

C7_Witness ==
    /\ pc = "done"
    /\ input = <<"1", " ", "1">>
    /\ outcome = [kind |-> "Ok", expr |-> Number(11)]
    /\ result = [kind |-> "Ok", v |-> 11]

(* ------------------------------ numbers -------------------------------- *)

DigitValue(c) == CHOOSE d \in 0..9 : DigitChars[d + 1] = c

AllDigits(s) == s # <<>> /\ \A i \in 1..Len(s) : s[i] \in Alphabet \ {"(", ")", "+", "-"}

RECURSIVE StripZeros(_)
\* a digit string without its leading zeros, one digit at least
StripZeros(s) == IF Len(s) > 1 /\ s[1] = "0" THEN StripZeros(Tail(s)) ELSE s

RECURSIVE Decimal(_)
\* the decimal digits of a natural number
Decimal(n) ==
    IF n < 10 THEN <<DigitChars[n + 1]>>
    ELSE Append(Decimal(n \div 10), DigitChars[(n % 10) + 1])

\* a <= b for two digit strings of one length
DigitsLeq(a, b) ==
    \A i \in 1..Len(a) :
        (\A j \in 1..(i - 1) : a[j] = b[j]) => DigitValue(a[i]) <= DigitValue(b[i])

\* the value of the digit string is at most 2^31 - 1
FitsI32(s) ==
    LET z == StripZeros(s)
        m == Decimal(I32_MAX)
    IN  Len(z) < Len(m) \/ (Len(z) = Len(m) /\ DigitsLeq(z, m))

\* parse gave Number(n) and evaluate n, n the value of the digit string
ParsesToItsValue ==
    /\ pc \in {"parsed", "done"} =>
          /\ outcome.kind = "Ok"
          /\ outcome.expr.x = "Number"
          /\ outcome.expr.n >= 0
          /\ Decimal(outcome.expr.n) = StripZeros(input)
    /\ pc = "done" => result = [kind |-> "Ok", v |-> outcome.expr.n]

\* C2 as stated: every digit string, of every length, parses to Number(n)
\* with n its base-10 value, and evaluates to n
C2_DigitsParseToValue == AllDigits(input) => ParsesToItsValue

\* C2 amended: a digit string whose value is at most 2^31 - 1 parses to
\* Number(n) with n its base-10 value, and evaluates to n
C2_DigitsInRangeParseToValue == (AllDigits(input) /\ FitsI32(input)) => ParsesToItsValue

C2_Witness ==
    /\ pc = "done"
    /\ input = <<"0", "2", "1", "4", "7", "4", "8", "3", "6", "4", "7">>
    /\ outcome = [kind |-> "Ok", expr |-> Number(I32_MAX)]
    /\ result = [kind |-> "Ok", v |-> I32_MAX]

(* ------------------------------ values --------------------------------- *)

\* an integer of any size as <<hi, lo>>, value hi * 2^16 + lo, 0 <= lo < 2^16
Wide(v) == <<v \div Limb, v % Limb>>

WideAdd(a, b) == <<a[1] + b[1] + ((a[2] + b[2]) \div Limb), (a[2] + b[2]) % Limb>>
WideSub(a, b) == <<a[1] - b[1] + ((a[2] - b[2]) \div Limb), (a[2] - b[2]) % Limb>>

RECURSIVE MathValue(_)
\* the value of a tree over the integers
MathValue(expr) ==
    IF expr.x = "Number" THEN Wide(expr.n)
    ELSE IF expr.x = "Add" THEN WideAdd(MathValue(expr.lhs), MathValue(expr.rhs))
    ELSE WideSub(MathValue(expr.lhs), MathValue(expr.rhs))

InI32(w) == -HalfLimb <= w[1] /\ w[1] < HalfLimb

RECURSIVE AllInRange(_)
\* every sum and difference of the tree stays in the i32 range
AllInRange(expr) ==
    \/ expr.x = "Number"
    \/ AllInRange(expr.lhs) /\ AllInRange(expr.rhs) /\ InI32(MathValue(expr))

EvaluatesToValue == result.kind = "Ok" /\ Wide(result.v) = MathValue(outcome.expr)

\* C8 as stated: evaluate returns the tree's value and never aborts, also
\* when a sum or difference leaves the i32 range
C8_EvaluateTotal == pc = "done" => EvaluatesToValue

\* C8 amended: evaluate returns the tree's value and does not abort when
\* every sum and difference of the tree stays in the i32 range
C8_EvaluateTotalInRange == (pc = "done" /\ AllInRange(outcome.expr)) => EvaluatesToValue

C8_Witness ==
    /\ pc = "done"
    /\ outcome.expr = Sub(Number(I32_MIN), Sub(Number(-1), Number(I32_MAX)))
    /\ AllInRange(outcome.expr)
    /\ result = [kind |-> "Ok", v |-> 0]

====
